---- MODULE Spec2Model ----
(***************************************************************************)
(* A model of models/kmlp.py: the DynamicKerasClassifier (rare-label mask  *)
(* computed at fit, blended at predict_proba) and the two training         *)
(* drivers cv_fit and fit.                                                 *)
(*                                                                         *)
(* Probabilities are exact rationals or NaN.  The trained network is a     *)
(* black box: its weights are one value chosen when the model is fitted,   *)
(* and its sigmoid output for a row and a label is read from a table.      *)
(* log_loss is uninterpreted: a loss is the pair of arguments it was       *)
(* computed from.                                                          *)
(***************************************************************************)
EXTENDS Integers, Sequences, FiniteSets, TLC

\* ------------------------------------------------------------------ bounds
MaxFits == 2        \* direct fit calls on one classifier instance
MaxRows == 3        \* rows of the training table given to cv_fit / fit
MaxSplits == 2      \* n_splits values tried

\* rows of one run-length block of a directly fitted table
Counts == {1, 199}
\* trained-weight values of the black-box network
Weights == 0 .. 1
\* input widths tried in direct fit calls
Widths == 1 .. 2
\* label columns of y
LabelWidths == 1 .. 2
\* run-length blocks of a directly fitted table
TableSizes == 0 .. 2
\* the feature classes of the rows of the X given to a direct predict_proba
PredictTables == {<<0>>, <<0, 1>>}
\* the cp_type columns of the test tables tried
TestTables == {<<"trt_cp">>, <<"trt_cp", "ctl_vehicle">>}

\* ------------------------------------------------------------- arithmetic
RECURSIVE GCD(_, _)
GCD(a, b) == IF b = 0 THEN a ELSE GCD(b, a % b)

\* a float: NaN or the rational num/den in lowest terms, den > 0
Rat(n, d) ==
    LET g == GCD(n, d)
    IN  [nan |-> FALSE, num |-> n \div g, den |-> d \div g]

NaN == [nan |-> TRUE, num |-> 0, den |-> 1]
Zero == Rat(0, 1)

RatAdd(a, b) ==
    IF a.nan \/ b.nan THEN NaN
    ELSE Rat(a.num * b.den + b.num * a.den, a.den * b.den)

RatDiv(a, k) == IF a.nan THEN NaN ELSE Rat(a.num, a.den * k)

\* a < b; any comparison with NaN is false
RatLess(a, b) == ~a.nan /\ ~b.nan /\ a.num * b.den < b.num * a.den

\* numpy's bool * float: True is 1, False is 0
RatTimesBool(a, t) == IF a.nan THEN NaN ELSE IF t THEN a ELSE Zero

RECURSIVE SumSeq(_)
SumSeq(s) == IF s = <<>> THEN 0 ELSE Head(s) + SumSeq(Tail(s))

Range(s) == {s[i] : i \in DOMAIN s}

\* sequences over S with a length in N
SeqsOf(S, N) == UNION {[1 .. k -> S] : k \in N}

\* ------------------------------------------------------------- the tables
\* A directly fitted table: width feature columns, m label columns, rows in
\* run-length form (count identical rows with labels y).
Cutoff == 200

Labels(m) == [1 .. m -> 0 .. 1]

NRows(rows) == SumSeq([i \in DOMAIN rows |-> rows[i].count])

\* y.sum(0)[j]
ColSum(rows, j) == SumSeq([i \in DOMAIN rows |-> rows[i].y[j] * rows[i].count])

\* ------------------------------------------- DynamicKerasClassifier
\* The sigmoid outputs the black-box network can emit (NaN under numerical
\* instability).
ProbVals == <<Rat(3, 5), NaN, Rat(0, 1), Rat(1, 1)>>

\* super().predict_proba: the network's output for feature class x, label j
ModelOutput(model, x, j) == ProbVals[((model.w + x + j) % Len(ProbVals)) + 1]

NoModel == [id |-> 0, input_units |-> 0, output_units |-> 0, w |-> 0]

\* DynamicKerasClassifier(create_model, ...): no model, no _freqs, build_fn
\* is create_model itself (binds counts the partial() wrappings applied)
NewClassifier ==
    [build_fn  |-> [binds |-> 0, input_units |-> 0, output_units |-> 0],
     has_freqs |-> FALSE, _freqs |-> <<>>,
     has_model |-> FALSE, model |-> NoModel, fits |-> 0]

\* partial() applied only while build_fn is still unbound
partial_Once(build_fn, input_units, output_units) ==
    IF build_fn.binds > 0 THEN build_fn
    ELSE [binds |-> 1,
          input_units |-> input_units, output_units |-> output_units]

\* partial(self.build_fn, input_units=..., output_units=...)
partial(build_fn, input_units, output_units) ==
    [binds |-> build_fn.binds + 1,
     input_units |-> input_units, output_units |-> output_units]

\* create_model as bound by build_fn, trained to weights w
create_model(build_fn, id, w) ==
    [id |-> id, input_units |-> build_fn.input_units,
     output_units |-> build_fn.output_units, w |-> w]

\* freqs * (freqs <= cut)
MaskEntry_Inclusive(rows, j) ==
    LET n == NRows(rows)
        cut == Rat(Cutoff, n)
        freqs == Rat(ColSum(rows, j), n)
    IN  RatTimesBool(freqs, ~RatLess(cut, freqs))

\* freqs * (freqs < cut) for label j of a table of n > 0 rows
MaskEntry(rows, j) ==
    LET n == NRows(rows)
        cut == Rat(Cutoff, n)
        freqs == Rat(ColSum(rows, j), n)
    IN  RatTimesBool(freqs, RatLess(freqs, cut))

\* fit that keeps an earlier fit's mask entry where the new one is zero
DKC_fit_MergeMask(self, width, m, rows, id, w) ==
    LET bound == [self EXCEPT !.build_fn = partial(self.build_fn, width, m)]
        Merged(j) ==
            IF MaskEntry(rows, j) = Zero /\ j \in DOMAIN self._freqs
            THEN self._freqs[j] ELSE MaskEntry(rows, j)
    IN  IF NRows(rows) = 0
        THEN [self |-> bound, err |-> "ZeroDivisionError"]
        ELSE [self |-> [bound EXCEPT
                          !.has_freqs = TRUE,
                          !._freqs = [j \in 1 .. m |-> Merged(j)],
                          !.has_model = TRUE,
                          !.model = create_model(bound.build_fn, id, w),
                          !.fits = self.fits + 1],
              err |-> "none"]

\* DynamicKerasClassifier.fit(X, y): X has width columns, y has m, both the
\* rows of `rows`.  The result is the instance afterwards and the error
\* raised, if any.
DKC_fit(self, width, m, rows, id, w) ==
    LET bound == [self EXCEPT !.build_fn = partial(self.build_fn, width, m)]
    IN  IF NRows(rows) = 0
        THEN [self |-> bound, err |-> "ZeroDivisionError"]
        ELSE [self |-> [bound EXCEPT
                          !.has_freqs = TRUE,
                          !._freqs = [j \in 1 .. m |-> MaskEntry(rows, j)],
                          !.has_model = TRUE,
                          !.model = create_model(bound.build_fn, id, w),
                          !.fits = self.fits + 1],
              err |-> "none"]

\* probas[:, idx] + self._freqs[idx], not halved
Blend_NoHalving(p, f) == IF RatLess(Zero, f) THEN RatAdd(p, f) ELSE p

\* (probas[:, idx] + self._freqs[idx]) / 2 where idx = where(_freqs > 0)
Blend(p, f) == IF RatLess(Zero, f) THEN RatDiv(RatAdd(p, f), 2) ELSE p

\* predict_proba that reads no fitted attribute before answering
DKC_predict_proba_Unchecked(self, xs) ==
    [err |-> "none",
     probas |-> [i \in DOMAIN xs |->
                   [j \in 1 .. self.model.output_units |->
                      Blend(ModelOutput(self.model, xs[i], j),
                            self._freqs[j])]]]

\* DynamicKerasClassifier.predict_proba(X): xs are the feature classes of
\* the rows of X.  Without a model (or without _freqs) the attribute read
\* raises AttributeError.
DKC_predict_proba(self, xs) ==
    IF ~self.has_model \/ ~self.has_freqs
    THEN [err |-> "AttributeError", probas |-> <<>>]
    ELSE [err |-> "none",
          probas |-> [i \in DOMAIN xs |->
                        [j \in 1 .. self.model.output_units |->
                           Blend(ModelOutput(self.model, xs[i], j),
                                 self._freqs[j])]]]

\* a sanitizer that lets NaN through
nan_to_num1_Identity(v) == v

\* np.nan_to_num on one probability, and on a matrix of them
nan_to_num1(v) == IF v.nan THEN Zero ELSE v

nan_to_num(mat) ==
    [i \in DOMAIN mat |-> [j \in DOMAIN mat[i] |-> nan_to_num1(mat[i][j])]]

\* --------------------------------------------------------- the pipeline
\* The feature table's columns, by prefix
Columns == <<[prefix |-> "cp", name |-> "cp_type"],
             [prefix |-> "cp", name |-> "cp_time"],
             [prefix |-> "cp", name |-> "cp_dose"],
             [prefix |-> "g-", name |-> "g-0"],
             [prefix |-> "c-", name |-> "c-0"],
             [prefix |-> "c-", name |-> "c-1"]>>

\* PandasSelector(cols=None, startswith=p): "" stands for startswith=None
PandasSelector(p) == [has_cols |-> FALSE, cols |-> <<>>, startswith |-> p]

\* PandasSelector.fit: resolve the prefix once, if no column list is set
PandasSelector_fit(sel) ==
    IF ~sel.has_cols /\ sel.startswith # ""
    THEN LET Match(c) == c.prefix = sel.startswith
         IN  [sel EXCEPT !.has_cols = TRUE, !.cols = SelectSeq(Columns, Match)]
    ELSE sel

\* PandasSelector.transform: the width of what it returns
PandasSelector_width(sel) ==
    IF ~sel.has_cols THEN Len(Columns) ELSE Len(sel.cols)

\* build_model(): the preprocessor's two selectors and the classifier
build_model ==
    [ce |-> PandasSelector(""), c_quantiles |-> PandasSelector("c-"),
     clf |-> NewClassifier]

\* what the network sees of a row of the feature table
FeatureOf(row) == IF row.cp_type = "ctl_vehicle" THEN 1 ELSE 0

\* Pipeline.fit(X, y): fit the selectors, then (on a non-empty table) the
\* classifier on the transformed features
Pipeline_fit(est, Xrows, yrows, m, id, w) ==
    LET ce == PandasSelector_fit(est.ce)
        cq == PandasSelector_fit(est.c_quantiles)
        pre == [est EXCEPT !.ce = ce, !.c_quantiles = cq]
        width == PandasSelector_width(ce) + PandasSelector_width(cq)
        blocks == [i \in DOMAIN yrows |-> [y |-> yrows[i], count |-> 1]]
        r == DKC_fit(est.clf, width, m, blocks, id, w)
    IN  IF Len(Xrows) = 0
        THEN [self |-> pre, err |-> "ValueError"]
        ELSE [self |-> [pre EXCEPT !.clf = r.self], err |-> r.err]

\* Pipeline.predict_proba(X)
Pipeline_predict_proba(est, Xrows) ==
    DKC_predict_proba(est.clf, [i \in DOMAIN Xrows |-> FeatureOf(Xrows[i])])

\* no copy: the template itself is handed back
clone_Alias(heap, ref) == [heap |-> heap, ref |-> ref]

\* sklearn.base.clone on a heap of estimators: a fresh, deep-copied, unfit
\* instance built from the parameters of heap[ref]
clone(heap, ref) ==
    [heap |-> Append(heap,
                     [ce |-> heap[ref].ce,
                      c_quantiles |-> heap[ref].c_quantiles,
                      clf |-> [NewClassifier EXCEPT
                                 !.build_fn = heap[ref].clf.build_fn]]),
     ref |-> Len(heap) + 1]

\* ----------------------------------------------------------- the splitters
DefaultSplits == 5

Min(a, b) == IF a < b THEN a ELSE b

\* the indices 1 .. n that are not in val, in order
Others(n, val) ==
    LET Keep(i) == \A k \in DOMAIN val : val[k] # i
    IN  SelectSeq([i \in 1 .. n |-> i], Keep)

\* KFold(n_splits=k).split over n rows, fold f (from 0): the first n % k
\* folds hold n \div k + 1 consecutive rows, the others n \div k
KFoldVal(n, k, f) ==
    LET base == n \div k
        extra == n % k
        start == f * base + Min(f, extra)
        size == base + (IF f < extra THEN 1 ELSE 0)
    IN  [i \in 1 .. size |-> start + i]

\* ShuffleSplit(n_splits=k).split over n <= 10 rows: one row is held out
\* per fold (here the permutation holds out row n - f % n)
ShuffleVal(n, f) == <<n - (f % n)>>

\* list(cv.split(X, y)), with the error it raises instead, if any
Splits(cv, n) ==
    LET Val(f) == IF cv.kind = "KFold" THEN KFoldVal(n, cv.n_splits, f)
                  ELSE ShuffleVal(n, f)
    IN  IF cv.kind = "KFold" /\ cv.n_splits > n
        THEN [err |-> "ValueError", folds |-> <<>>]
        ELSE IF cv.kind = "ShuffleSplit" /\ n < 2
        THEN [err |-> "ValueError", folds |-> <<>>]
        ELSE [err |-> "none",
              folds |-> [f \in 1 .. cv.n_splits |->
                           [trn_idx |-> Others(n, Val(f - 1)),
                            val_idx |-> Val(f - 1)]]]

\* ---------------------------------------------------------- matrix helpers
\* t[idx]: the rows of t at the positions idx
Take(t, idx) == [k \in DOMAIN idx |-> t[idx[k]]]

\* t[~mask]: the rows of t whose position is not masked
RECURSIVE DropMasked(_, _)
DropMasked(t, mask) ==
    IF t = <<>> THEN <<>>
    ELSE (IF Head(mask) THEN <<>> ELSE <<Head(t)>>)
         \o DropMasked(Tail(t), Tail(mask))

\* a mask that marks no row
CtlMask_None(Xrows) == [i \in DOMAIN Xrows |-> FALSE]

\* X.iloc[:, 0] == "ctl_vehicle"
CtlMask(Xrows) == [i \in DOMAIN Xrows |-> Xrows[i].cp_type = "ctl_vehicle"]

\* mat.reshape(-1)
RECURSIVE Flatten(_)
Flatten(mat) == IF mat = <<>> THEN <<>> ELSE Head(mat) \o Flatten(Tail(mat))

\* log_loss(y_true, y_pred), uninterpreted
log_loss(y_true, y_pred) == [y_true |-> y_true, y_pred |-> y_pred]

\* losses = [loss]
AppendLoss_Overwrite(losses, loss) == <<loss>>

\* losses.append(loss)
AppendLoss(losses, loss) == Append(losses, loss)

\* np.zeros((r, m))
Zeros(r, m) == [i \in 1 .. r |-> [j \in 1 .. m |-> Zero]]

\* test_preds + preds
Accumulate_NoDivide(test_preds, preds, k) ==
    [i \in DOMAIN test_preds |->
       [j \in DOMAIN test_preds[i] |->
          RatAdd(test_preds[i][j], preds[i][j])]]

\* test_preds + preds / k
Accumulate(test_preds, preds, k) ==
    [i \in DOMAIN test_preds |->
       [j \in DOMAIN test_preds[i] |->
          RatAdd(test_preds[i][j], RatDiv(preds[i][j], k))]]

\* ------------------------------------------------------------------ state
VARIABLES
    dkc,      \* a DynamicKerasClassifier used directly
    last,     \* the last direct call on dkc: what it was and how it ended
    fitY,     \* the y table of the last direct fit that returned
    heap,     \* the estimators (pipelines) that exist, by reference
    built,    \* how many times create_model has built a network
    X, y,     \* the training table: feature rows and label rows
    X_test,   \* the test feature rows
    cfg,      \* the driver call: which entry point, clf, cv, n_splits
    pc,       \* where the driver is
    loc,      \* the driver's local variables
    log,      \* the calls the driver has made, in order
    ret       \* what the driver returned

vars == <<dkc, last, fitY, heap, built, X, y, X_test, cfg, pc, loc, log, ret>>

directVars == <<dkc, last, fitY>>
driverVars == <<heap, X, y, X_test, cfg, pc, loc, log, ret>>

NoCall == [op |-> "none", err |-> "none", xs |-> <<>>, probas |-> <<>>]
NoTable == [m |-> 0, rows |-> <<>>]
NoLocals ==
    [cv |-> [kind |-> "None", n_splits |-> 0], folds |-> <<>>, fn |-> 0,
     estimators |-> <<>>, losses_train |-> <<>>, losses_valid |-> <<>>,
     test_preds |-> <<>>, X_train |-> <<>>, y_train |-> <<>>,
     X_val |-> <<>>, y_val |-> <<>>]
NoReturn ==
    [estimators |-> <<>>, losses_train |-> <<>>, losses_valid |-> <<>>,
     test_preds |-> <<>>]

\* ----------------------------------------- direct use of the classifier
Blocks(m) == [y : Labels(m), count : Counts]

InitDirect ==
    /\ dkc = NewClassifier
    /\ last = NoCall
    /\ fitY = NoTable
    /\ built = 0
    /\ heap = <<>>
    /\ X = <<>> /\ y = <<>> /\ X_test = <<>>
    /\ cfg = [mode |-> "none", clf |-> 0, m |-> 0, n_splits |-> 0,
              cv |-> [kind |-> "None", n_splits |-> 0]]
    /\ pc = "idle"
    /\ loc = NoLocals
    /\ log = <<>>
    /\ ret = NoReturn

\* dkc.fit(X, y)
DirectFit ==
    /\ dkc.build_fn.binds < MaxFits
    /\ \E width \in Widths, m \in LabelWidths, w \in Weights :
         \E rows \in SeqsOf(Blocks(m), TableSizes) :
            LET r == DKC_fit(dkc, width, m, rows, built + 1, w)
            IN  /\ dkc' = r.self
                /\ built' = IF r.err = "none" THEN built + 1 ELSE built
                /\ fitY' = IF r.err = "none"
                           THEN [m |-> m, rows |-> rows] ELSE fitY
                /\ last' = [op |-> "fit", err |-> r.err, xs |-> <<>>,
                            probas |-> <<>>]
    /\ UNCHANGED driverVars

\* dkc.predict_proba(X)
DirectPredict ==
    /\ \E xs \in PredictTables :
         LET r == DKC_predict_proba(dkc, xs)
         IN  last' = [op |-> "predict_proba", err |-> r.err, xs |-> xs,
                      probas |-> r.probas]
    /\ UNCHANGED <<dkc, fitY, built>>
    /\ UNCHANGED driverVars

NextDirect == DirectFit \/ DirectPredict

SpecDirect == InitDirect /\ [][NextDirect]_vars

\* ------------------------------------------------------------ the drivers
CpTypes == {"trt_cp", "ctl_vehicle"}

\* the splitters a call can name: cv=None with n_splits, or a splitter
Configs ==
    [mode : {"cv_fit"}, clf : {1}, m : LabelWidths,
     n_splits : 1 .. MaxSplits, cv : {[kind |-> "None", n_splits |-> 0]}]
    \cup
    [mode : {"cv_fit"}, clf : {1}, m : LabelWidths,
     n_splits : {DefaultSplits},
     cv : [kind : {"KFold"}, n_splits : 2 .. MaxSplits]
          \cup [kind : {"ShuffleSplit"}, n_splits : {1}]]
    \cup
    [mode : {"fit"}, clf : {1}, m : LabelWidths, n_splits : {0},
     cv : {[kind |-> "None", n_splits |-> 0]}]

Init ==
    /\ dkc = NewClassifier
    /\ last = NoCall
    /\ fitY = NoTable
    /\ built = 0
    /\ heap = <<build_model>>
    /\ cfg \in Configs
    /\ \E n \in 1 .. MaxRows :
         /\ \E t \in [1 .. n -> CpTypes] :
              X = [i \in 1 .. n |-> [id |-> i, cp_type |-> t[i]]]
         /\ y \in [1 .. n -> Labels(cfg.m)]
    /\ \E t \in TestTables :
         X_test = [i \in DOMAIN t |-> [id |-> i, cp_type |-> t[i]]]
    /\ pc = "call"
    /\ loc = NoLocals
    /\ log = <<>>
    /\ ret = NoReturn

Event(op, use, fold, est, Xr, yr, out) ==
    [op |-> op, use |-> use, fold |-> fold, est |-> est, X |-> Xr, y |-> yr,
     out |-> out]

\* cv_fit, up to the first fold: the splitter, the zeroed test_preds, the
\* empty lists, and the folds cv.split yields
CvCall ==
    /\ pc = "call" /\ cfg.mode = "cv_fit"
    /\ LET cv == IF cfg.cv.kind # "None" THEN cfg.cv
                 ELSE [kind |-> "KFold", n_splits |-> cfg.n_splits]
           sp == Splits(cv, Len(X))
       IN  IF cfg.cv.kind = "None" /\ cfg.n_splits < 2
           THEN pc' = "error" /\ loc' = loc
           ELSE IF sp.err # "none"
           THEN pc' = "error" /\ loc' = [loc EXCEPT !.cv = cv]
           ELSE /\ pc' = "loop"
                /\ loc' = [loc EXCEPT
                             !.cv = cv, !.folds = sp.folds, !.fn = 0,
                             !.test_preds = Zeros(Len(X_test), cfg.m)]
    /\ UNCHANGED <<directVars, heap, built, X, y, X_test, cfg, log, ret>>

\* one fold, up to the fit: clone, split by index, drop the control rows
\* from the training part
CvFold ==
    /\ pc = "loop" /\ loc.fn < Len(loc.folds)
    /\ LET fold == loc.folds[loc.fn + 1]
           c == clone(heap, cfg.clf)
           Xt == Take(X, fold.trn_idx)
           yt == Take(y, fold.trn_idx)
           ctl_mask == CtlMask(Xt)
       IN  /\ heap' = c.heap
           /\ loc' = [loc EXCEPT
                        !.estimators = Append(@, c.ref),
                        !.X_train = DropMasked(Xt, ctl_mask),
                        !.y_train = DropMasked(yt, ctl_mask),
                        !.X_val = Take(X, fold.val_idx),
                        !.y_val = Take(y, fold.val_idx)]
           /\ log' = Append(log, Event("clone", "", loc.fn, c.ref, <<>>, <<>>,
                                       <<>>))
    /\ pc' = "fit"
    /\ UNCHANGED <<directVars, built, X, y, X_test, cfg, ret>>

\* estimators[-1].fit(X_train, y_train)
CvFit ==
    /\ pc = "fit"
    /\ \E w \in Weights :
         LET est == loc.estimators[Len(loc.estimators)]
             r == Pipeline_fit(heap[est], loc.X_train, loc.y_train, cfg.m,
                               built + 1, w)
         IN  /\ heap' = [heap EXCEPT ![est] = r.self]
             /\ built' = IF r.err = "none" THEN built + 1 ELSE built
             /\ pc' = IF r.err = "none" THEN "score" ELSE "error"
             /\ log' = Append(log, Event("fit", "train", loc.fn, est, loc.X_train,
                                         loc.y_train, <<>>))
    /\ UNCHANGED <<directVars, X, y, X_test, cfg, loc, ret>>

\* predict_proba, nan_to_num and log_loss on the rows (Xr, yr), for the
\* estimator est: the loss, the error, and the two calls made
Score(est, use, fold, Xr, yr) ==
    LET r == Pipeline_predict_proba(heap[est], Xr)
        preds == nan_to_num(r.probas)
    IN  [err |-> r.err,
         loss |-> log_loss(Flatten(yr), Flatten(preds)),
         events |-> <<Event("predict_proba", use, fold, est, Xr, <<>>,
                            r.probas),
                      Event("log_loss", use, fold, est, Xr, yr, preds)>>]

\* the rest of the fold: the training loss, the validation loss, and the
\* test prediction added to the running average
CvScore ==
    /\ pc = "score"
    /\ LET est == loc.estimators[Len(loc.estimators)]
           t == Score(est, "train", loc.fn, loc.X_train, loc.y_train)
           v == Score(est, "valid", loc.fn, loc.X_val, loc.y_val)
           r == Pipeline_predict_proba(heap[est], X_test)
           preds == nan_to_num(r.probas)
       IN  /\ loc' = [loc EXCEPT
                        !.losses_train = AppendLoss(@, t.loss),
                        !.losses_valid = AppendLoss(@, v.loss),
                        !.test_preds = Accumulate(@, preds, loc.cv.n_splits),
                        !.fn = @ + 1]
           /\ log' = log \o t.events \o v.events \o
                  <<Event("predict_proba", "test", loc.fn, est, X_test, <<>>,
                          r.probas),
                    Event("accumulate", "test", loc.fn, est, X_test, <<>>,
                          preds)>>
    /\ pc' = "loop"
    /\ UNCHANGED <<directVars, heap, built, X, y, X_test, cfg, ret>>

\* cv_fit returns
CvReturn ==
    /\ pc = "loop" /\ loc.fn = Len(loc.folds)
    /\ ret' = [estimators |-> loc.estimators,
               losses_train |-> loc.losses_train,
               losses_valid |-> loc.losses_valid,
               test_preds |-> loc.test_preds]
    /\ pc' = "done"
    /\ UNCHANGED <<directVars, heap, built, X, y, X_test, cfg, loc, log>>

\* fit(clf, X, y, X_test): the single-shot driver, whole
FitCall ==
    /\ pc = "call" /\ cfg.mode = "fit"
    /\ \E w \in Weights :
         LET est == cfg.clf
             ctl_mask == CtlMask(X)
             X_train == DropMasked(X, ctl_mask)
             y_train == DropMasked(y, ctl_mask)
             f == Pipeline_fit(heap[est], X_train, y_train, cfg.m,
                               built + 1, w)
             fitted == [heap EXCEPT ![est] = f.self]
             r1 == Pipeline_predict_proba(fitted[est], X_train)
             train_preds == nan_to_num(r1.probas)
             loss == log_loss(Flatten(y_train), Flatten(train_preds))
             r2 == Pipeline_predict_proba(fitted[est], X_test)
             test_preds == nan_to_num(r2.probas)
             fitEvent == Event("fit", "train", 0, est, X_train, y_train, <<>>)
         IN  /\ heap' = fitted
             /\ IF f.err # "none"
                THEN /\ pc' = "error"
                     /\ log' = <<fitEvent>>
                     /\ UNCHANGED <<built, loc, ret>>
                ELSE /\ pc' = "done"
                     /\ built' = built + 1
                     /\ loc' = [loc EXCEPT
                                  !.losses_train = AppendLoss(<<>>, loss),
                                  !.losses_valid = AppendLoss(<<>>, loss),
                                  !.X_train = X_train, !.y_train = y_train]
                     /\ log' =
                          <<fitEvent,
                            Event("predict_proba", "train", 0, est, X_train, <<>>,
                                  r1.probas),
                            Event("log_loss", "train", 0, est, X_train, y_train,
                                  train_preds),
                            Event("predict_proba", "test", 0, est, X_test, <<>>,
                                  r2.probas)>>
                     /\ ret' = [estimators |-> <<est>>,
                                losses_train |-> AppendLoss(<<>>, loss),
                                losses_valid |-> AppendLoss(<<>>, loss),
                                test_preds |-> test_preds]
    /\ UNCHANGED <<directVars, X, y, X_test, cfg>>

Next ==
    \/ CvCall
    \/ CvFold
    \/ CvFit
    \/ CvScore
    \/ CvReturn
    \/ FitCall

Spec == Init /\ [][Next]_vars

\* ================================================= direct use: the claims
\* the mask the claims describe for label j of table t: the exact positive
\* rate c/n when the positive count c is below 200, else 0
ClaimedMask(t, j) ==
    LET c == ColSum(t.rows, j)
        n == NRows(t.rows)
    IN  IF c < 200 THEN [nan |-> FALSE, num |-> c \div GCD(c, n),
                         den |-> n \div GCD(c, n)]
        ELSE [nan |-> FALSE, num |-> 0, den |-> 1]

\* out = (raw + f) / 2, by cross-multiplication; NaN stays NaN
IsHalfSum(out, raw, f) ==
    IF raw.nan THEN out.nan
    ELSE /\ ~out.nan
         /\ 2 * out.num * raw.den * f.den
              = (raw.num * f.den + f.num * raw.den) * out.den

C4_MaskCorrect ==
    (last.op = "fit" /\ last.err = "none") =>
        /\ Len(dkc._freqs) = fitY.m
        /\ \A j \in 1 .. fitY.m :
             LET c == ColSum(fitY.rows, j)
                 n == NRows(fitY.rows)
             IN  /\ c < 200 => /\ ~dkc._freqs[j].nan
                               /\ dkc._freqs[j].num * n = c * dkc._freqs[j].den
                 /\ c >= 200 => dkc._freqs[j] = Zero
                 /\ dkc._freqs[j] = Zero \/ dkc._freqs[j] = Rat(c, n)

C4_Witness ==
    /\ last.op = "fit" /\ last.err = "none" /\ fitY.m = 2
    /\ ColSum(fitY.rows, 1) = 200 /\ dkc._freqs[1] = Zero
    /\ ColSum(fitY.rows, 2) = 199 /\ dkc._freqs[2] = Rat(199, 200)

\* C5: predict_proba on a fitted classifier returns a matrix of the shape
\* of the raw model output; a label with mask f > 0 gets (raw + f) / 2 and
\* a label with mask 0 gets the raw output.
C5_BlendCorrect ==
    (last.op = "predict_proba" /\ last.err = "none") =>
        /\ Len(last.probas) = Len(last.xs)
        /\ \A i \in DOMAIN last.xs :
             /\ Len(last.probas[i]) = dkc.model.output_units
             /\ \A j \in 1 .. dkc.model.output_units :
                  LET raw == ModelOutput(dkc.model, last.xs[i], j)
                      f == dkc._freqs[j]
                  IN  /\ f.num > 0 => IsHalfSum(last.probas[i][j], raw, f)
                      /\ f.num = 0 => last.probas[i][j] = raw

C5_Witness ==
    /\ last.op = "predict_proba" /\ last.err = "none"
    /\ dkc.model.output_units = 2
    /\ dkc._freqs[1] = Zero /\ dkc._freqs[2] = Rat(1, 2)
    /\ \E i \in DOMAIN last.xs :
         /\ ModelOutput(dkc.model, last.xs[i], 2) = Rat(3, 5)
         /\ last.probas[i][2] = Rat(11, 20)
         /\ last.probas[i][1] = ModelOutput(dkc.model, last.xs[i], 1)

\* C8 as stated: the builder is bound and the model built once, at the
\* first fit, and no later fit on the instance re-binds or rebuilds.
C8_BoundOnce ==
    [][dkc.fits >= 1 =>
          /\ dkc'.build_fn = dkc.build_fn
          /\ dkc'.model.id = dkc.model.id]_vars

\* C8 amended: every fit call binds the builder to that call's widths, and
\* every fit call that returns builds a new model of those widths.
C8_BoundEveryFit ==
    [][last'.op = "fit" =>
          /\ dkc'.build_fn.binds = dkc.build_fn.binds + 1
          /\ last'.err = "none" =>
                /\ built' = built + 1
                /\ dkc'.model.id = built'
                /\ dkc'.model.input_units = dkc'.build_fn.input_units
                /\ dkc'.model.output_units = dkc'.build_fn.output_units
                /\ dkc'.model.output_units = fitY'.m]_vars

C8_Witness ==
    /\ dkc.fits = 2 /\ dkc.build_fn.binds = 2 /\ dkc.model.id = 2
    /\ dkc.model.input_units = 2 /\ dkc.model.output_units = 1

EffectiveSplits ==
    IF cfg.cv.kind = "None" THEN cfg.n_splits ELSE cfg.cv.n_splits

IsCtl(row) == row.cp_type = "ctl_vehicle"

\* the events of the log with the given op and use, in order
EventsOf(op, use) ==
    LET Is(e) == e.op = op /\ e.use = use
    IN  SelectSeq(log, Is)

\* C2: a cv_fit call that completes with k folds returns k estimators, k
\* training losses and k validation losses.
C2_FoldCounts ==
    (pc = "done" /\ cfg.mode = "cv_fit") =>
        /\ EffectiveSplits >= 1
        /\ Len(ret.estimators) = EffectiveSplits
        /\ Len(ret.losses_train) = EffectiveSplits
        /\ Len(ret.losses_valid) = EffectiveSplits

C2_Witness ==
    /\ pc = "done" /\ cfg.mode = "cv_fit"
    /\ cfg.cv.kind = "KFold" /\ cfg.cv.n_splits = 2
    /\ Len(ret.estimators) = 2 /\ Len(ret.losses_train) = 2
    /\ Len(ret.losses_valid) = 2

\* the training part of the fold an event belongs to, as a set of row ids
TrainIds(e) ==
    IF cfg.mode = "fit" THEN 1 .. Len(X)
    ELSE Range(loc.folds[e.fold + 1].trn_idx)

\* C3: no control row is passed to an estimator's fit, X and y lose the
\* same rows, and the validation and test rows are scored unfiltered.
C3_ControlRowsExcluded ==
    \A p \in DOMAIN log :
       LET e == log[p]
       IN  /\ e.op = "fit" =>
                /\ \A i \in DOMAIN e.X : ~IsCtl(e.X[i])
                /\ Len(e.y) = Len(e.X)
                /\ \A i \in DOMAIN e.X : e.y[i] = y[e.X[i].id]
                /\ {e.X[i].id : i \in DOMAIN e.X}
                     = {i \in TrainIds(e) : ~IsCtl(X[i])}
                /\ \A i \in DOMAIN e.X : e.X[i] = X[e.X[i].id]
                /\ \A i, k \in DOMAIN e.X : i < k => e.X[i].id < e.X[k].id
           /\ (e.op \in {"predict_proba", "log_loss"} /\ e.use = "valid") =>
                LET val_idx == loc.folds[e.fold + 1].val_idx
                IN  /\ Len(e.X) = Len(val_idx)
                    /\ \A k \in DOMAIN val_idx : e.X[k] = X[val_idx[k]]
                    /\ e.op = "log_loss" =>
                          /\ Len(e.y) = Len(val_idx)
                          /\ \A k \in DOMAIN val_idx : e.y[k] = y[val_idx[k]]
           /\ e.use = "test" => e.X = X_test

C3_Witness ==
    /\ cfg.mode = "cv_fit"
    /\ \E p \in DOMAIN log :
         /\ log[p].op = "fit" /\ Len(log[p].X) >= 1
         /\ Len(log[p].X) < Len(loc.folds[log[p].fold + 1].trn_idx)
    /\ \E p \in DOMAIN log :
         /\ log[p].op = "log_loss" /\ log[p].use = "valid"
         /\ \E i \in DOMAIN log[p].X : IsCtl(log[p].X[i])
    /\ \E p \in DOMAIN log :
         /\ log[p].op = "accumulate"
         /\ \E i \in DOMAIN log[p].X : IsCtl(log[p].X[i])

\* the sum of entry (i, j) of the matrices added, last fold first
RECURSIVE SumLastFirst(_, _, _)
SumLastFirst(accs, i, j) ==
    IF accs = <<>> THEN Zero
    ELSE RatAdd(SumLastFirst(Tail(accs), i, j), Head(accs).out[i][j])

Sanitized(m, n) ==
    /\ DOMAIN n = DOMAIN m
    /\ \A i \in DOMAIN m :
         /\ DOMAIN n[i] = DOMAIN m[i]
         /\ \A j \in DOMAIN m[i] :
              /\ ~n[i][j].nan
              /\ m[i][j].nan => n[i][j].num = 0
              /\ ~m[i][j].nan => n[i][j] = m[i][j]

\* C7: every matrix predict_proba returns is sanitized (NaN to 0, the rest
\* unchanged) before it reaches log_loss or the test predictions.
C7_NaNSanitized ==
    /\ \A p \in DOMAIN log :
         LET e == log[p]
         IN  /\ (e.op = "predict_proba"
                   /\ ~(cfg.mode = "fit" /\ e.use = "test")) =>
                   /\ p < Len(log)
                   /\ log[p + 1].op \in {"log_loss", "accumulate"}
                   /\ log[p + 1].use = e.use /\ log[p + 1].est = e.est
                   /\ Sanitized(e.out, log[p + 1].out)
             /\ e.op \in {"log_loss", "accumulate"} =>
                   /\ p > 1 /\ log[p - 1].op = "predict_proba"
             /\ (e.op = "predict_proba" /\ cfg.mode = "fit"
                   /\ e.use = "test") => Sanitized(e.out, ret.test_preds)
    /\ loc.losses_train
         = [k \in DOMAIN EventsOf("log_loss", "train") |->
              log_loss(Flatten(EventsOf("log_loss", "train")[k].y),
                       Flatten(EventsOf("log_loss", "train")[k].out))]
    /\ cfg.mode = "cv_fit" =>
         loc.losses_valid
           = [k \in DOMAIN EventsOf("log_loss", "valid") |->
                log_loss(Flatten(EventsOf("log_loss", "valid")[k].y),
                         Flatten(EventsOf("log_loss", "valid")[k].out))]
    /\ cfg.mode = "fit" => loc.losses_valid = loc.losses_train
    /\ \A i \in DOMAIN loc.test_preds : \A j \in DOMAIN loc.test_preds[i] :
         ~loc.test_preds[i][j].nan
    /\ \A i \in DOMAIN ret.test_preds : \A j \in DOMAIN ret.test_preds[i] :
         ~ret.test_preds[i][j].nan

C7_Witness ==
    \E p \in DOMAIN log :
       /\ log[p].op = "predict_proba" /\ log[p].use = "train"
       /\ p < Len(log) /\ log[p + 1].op = "log_loss"
       /\ \E i \in DOMAIN log[p].out : \E j, k \in DOMAIN log[p].out[i] :
            /\ log[p].out[i][j].nan /\ log[p + 1].out[i][j] = Zero
            /\ log[p].out[i][k] = Rat(1, 2) /\ log[p + 1].out[i][k] = Rat(1, 2)

\* C10: cv_fit fits clones only.  The template stays as built; fold f's
\* estimator is a fresh instance, fitted once, on that fold's rows, and
\* used for that fold's predictions; a fold's clone is made only after the
\* fold before it has fitted, scored and predicted; no two estimators share
\* a model.
C10_ClonesOnly ==
    cfg.mode = "cv_fit" =>
        /\ Len(heap) = 1 + Len(loc.estimators)
        /\ heap[cfg.clf] = build_model
        /\ \A a \in DOMAIN loc.estimators :
             /\ loc.estimators[a] = a + 1
             /\ heap[loc.estimators[a]].clf.fits <= 1
        /\ \A a, b \in DOMAIN loc.estimators :
             (a # b /\ heap[loc.estimators[a]].clf.has_model
                    /\ heap[loc.estimators[b]].clf.has_model) =>
                heap[loc.estimators[a]].clf.model.id
                  # heap[loc.estimators[b]].clf.model.id
        /\ \A p \in DOMAIN log :
             LET e == log[p]
             IN  /\ e.est = loc.estimators[e.fold + 1]
                 /\ e.est # cfg.clf
                 /\ e.op = "fit" => p > 1 /\ log[p - 1].op = "clone"
                                          /\ log[p - 1].est = e.est
                 /\ e.op \in {"predict_proba", "log_loss", "accumulate"} =>
                      /\ heap[e.est].clf.fits = 1
                      /\ heap[e.est].c_quantiles.has_cols
                 /\ (e.op = "clone" /\ e.fold > 0) =>
                      /\ p > 8
                      /\ [k \in 1 .. 8 |-> log[p - 9 + k].op]
                           = <<"clone", "fit", "predict_proba", "log_loss",
                               "predict_proba", "log_loss", "predict_proba",
                               "accumulate">>
                      /\ \A k \in 1 .. 8 : log[p - 9 + k].fold = e.fold - 1
                 /\ (e.op = "clone" /\ e.fold = 0) => p = 1
        /\ pc = "done" =>
             /\ ret.estimators = loc.estimators
             /\ \A a \in DOMAIN ret.estimators :
                  heap[ret.estimators[a]].clf.fits = 1

C10_Witness ==
    /\ pc = "done" /\ cfg.mode = "cv_fit"
    /\ Len(ret.estimators) = 2
    /\ heap[1] = build_model
    /\ heap[2].clf.fits = 1 /\ heap[3].clf.fits = 1
    /\ heap[2].clf._freqs # heap[3].clf._freqs
    /\ heap[2].clf.model.id = 1 /\ heap[3].clf.model.id = 2

====
